---- MODULE Spec2Model ----
(***************************************************************************)
(* A model of the Ludo game server of src/index.js: the room registry, the *)
(* six socket handlers (create-room, join-room, start-game, roll-dice,     *)
(* move-piece, disconnect) and the rules functions they call.              *)
(*                                                                         *)
(* Conventions                                                             *)
(*  - a JS object with string keys is a sequence in insertion order        *)
(*    (room.players), the rooms Map is a sequence in insertion order;      *)
(*  - null (lastRoll, captured) is NULL / the empty sequence;              *)
(*  - a player's display name and a piece's homeIndex are never read by    *)
(*    the handlers and are left out;                                       *)
(*  - positions are the code's numbers: -1 at home, 0..51 main track,      *)
(*    100 + i home stretch.                                                *)
(***************************************************************************)
EXTENDS Integers, Sequences, FiniteSets, TLC

\* ---------------------------------------------------------------- bounds
MaxSockets == 2      \* connection identities that ever connect
MaxCodes == 2        \* values generateRoomCode can return
MaxLobbyEvents == 3  \* Spec: accepted create-room, join-room, disconnect events
MaxGameEvents == 3   \* Spec: accepted roll-dice and move-piece events
MaxBoardLobby == 3   \* SpecBoard: accepted create-room, join-room, disconnect

Sockets == 1..MaxSockets
RoomCodes == 1..MaxCodes

\* ------------------------------------------------------ program constants
BOARD_SIZE == 52
MAX_PLAYERS == 4
MIN_PLAYERS == 2
DICE_MAX == 6
STRETCH_BASE == 100
STRETCH_LAST == 6
AT_HOME == -1
NULL == 0

COLORS == <<"red", "green", "yellow", "blue">>
Colors == {"red", "green", "yellow", "blue"}
Slots == 0..3
Dice == 1..DICE_MAX

START_POSITIONS == [red |-> 1, green |-> 14, yellow |-> 27, blue |-> 40]
HOME_STRETCH_START == [red |-> 51, green |-> 12, yellow |-> 25, blue |-> 38]
SAFE_POSITIONS == {1, 9, 14, 22, 27, 35, 40, 48}

\* ------------------------------------------------------------------ state
VARIABLES
  rooms,    \* the rooms Map: a sequence of room records, in insertion order
  conn,     \* conn[s]: "new" (never connected), "open", "closed"
  last,     \* the last accepted event and what the server broadcast for it
  nLobby,   \* number of accepted create-room / join-room / disconnect events
  nGame,    \* number of accepted roll-dice / move-piece events so far
  awaiting, \* awaiting[code]: who rolled a movable value and has not moved
            \* since (the turn controller's AwaitingMove), 0 for nobody;
            \* history kept under Spec only
  probe     \* input and result of one call of movePiece (SpecMovePiece only)

vars == <<rooms, conn, last, nLobby, nGame, awaiting, probe>>

\* --------------------------------------------------------- createGameState
HomePiece == [position |-> AT_HOME, isInHomeStretch |-> FALSE]

createGameState ==
  [ players       |-> <<>>,
    currentPlayer |-> 0,
    gameStarted   |-> FALSE,
    diceValue     |-> 1,
    lastRoll      |-> NULL,
    canRollAgain  |-> FALSE,
    pieces        |-> [c \in Colors |-> [i \in Slots |-> HomePiece]] ]

\* ------------------------------------------------------------ rules engine
\* canMovePiece with < for <= in the home stretch.
canMovePieceStrict(piece, diceValue, color) ==
  IF piece.position = AT_HOME
    THEN diceValue = DICE_MAX
  ELSE IF piece.isInHomeStretch
    THEN (piece.position - STRETCH_BASE) + diceValue < STRETCH_LAST
  ELSE TRUE

canMovePiece(piece, diceValue, color) ==
  IF piece.position = AT_HOME
    THEN diceValue = DICE_MAX
  ELSE IF piece.isInHomeStretch
    THEN (piece.position - STRETCH_BASE) + diceValue <= STRETCH_LAST
  ELSE TRUE

\* movePiece with the entry cell read from the wrong table.
movePieceWrongTable(piece, diceValue, color) ==
  IF piece.position = AT_HOME /\ diceValue = DICE_MAX
    THEN [moved |-> TRUE,
          piece |-> [piece EXCEPT !.position = HOME_STRETCH_START[color]]]
  ELSE IF piece.position = AT_HOME
    THEN [moved |-> FALSE, piece |-> piece]
  ELSE IF piece.isInHomeStretch
    THEN [moved |-> (piece.position - STRETCH_BASE) + diceValue
                       <= STRETCH_LAST,
          piece |-> IF (piece.position - STRETCH_BASE) + diceValue
                         <= STRETCH_LAST
                      THEN [piece EXCEPT !.position = @ + diceValue]
                      ELSE piece]
  ELSE [moved |-> TRUE,
        piece |-> [piece EXCEPT !.position =
                     (piece.position + diceValue) % BOARD_SIZE]]

\* movePiece mutates the piece and returns {moved, captured}; here it returns
\* the piece after the call together with moved (captured is always null).
movePiece(piece, diceValue, color) ==
  IF piece.position = AT_HOME /\ diceValue = DICE_MAX
    THEN [moved |-> TRUE,
          piece |-> [piece EXCEPT !.position = START_POSITIONS[color]]]
  ELSE IF piece.position = AT_HOME
    THEN [moved |-> FALSE, piece |-> piece]
  ELSE IF piece.isInHomeStretch
    THEN LET homeStretchPosition == piece.position - STRETCH_BASE IN
         IF homeStretchPosition + diceValue <= STRETCH_LAST
           THEN [moved |-> TRUE,
                 piece |-> [piece EXCEPT !.position =
                              STRETCH_BASE + homeStretchPosition + diceValue]]
           ELSE [moved |-> FALSE, piece |-> piece]
  ELSE LET newPosition == (piece.position + diceValue) % BOARD_SIZE
           homeStretchStart == HOME_STRETCH_START[color]
           stepsIntoHomeStretch == newPosition - homeStretchStart
       IN IF /\ piece.position <= homeStretchStart
             /\ newPosition > homeStretchStart
             /\ stepsIntoHomeStretch <= STRETCH_LAST
            THEN [moved |-> TRUE,
                  piece |-> [position |-> STRETCH_BASE + stepsIntoHomeStretch,
                             isInHomeStretch |-> TRUE]]
            ELSE [moved |-> TRUE,
                  piece |-> [piece EXCEPT !.position = newPosition]]

\* The (colour, slot) pairs in the order checkCapture's two loops visit them.
CaptureOrder ==
  [k \in 1..16 |-> <<COLORS[((k - 1) \div 4) + 1], (k - 1) % 4>>]

\* The pieces of other colours on the cell, as indices of CaptureOrder.
OthersOn(pieces, color, newPosition) ==
  {k \in 1..16 :
     /\ CaptureOrder[k][1] # color
     /\ pieces[CaptureOrder[k][1]][CaptureOrder[k][2]].position = newPosition
     /\ ~pieces[CaptureOrder[k][1]][CaptureOrder[k][2]].isInHomeStretch}

First(hits) == CHOOSE h \in hits : \A g \in hits : h <= g

\* checkCapture without the safe-cell test.
checkCaptureNoSafe(pieces, color, newPosition) ==
  LET hits == OthersOn(pieces, color, newPosition) IN
  IF hits = {} THEN [captured |-> <<>>, pieces |-> pieces]
  ELSE [captured |-> CaptureOrder[First(hits)],
        pieces |-> [pieces EXCEPT
           ![CaptureOrder[First(hits)][1]][CaptureOrder[First(hits)][2]]
             = HomePiece]]

\* checkCapture that reports the capture and leaves the piece where it is.
checkCaptureNoReset(pieces, color, newPosition) ==
  LET hits == OthersOn(pieces, color, newPosition) IN
  IF newPosition \in SAFE_POSITIONS \/ hits = {}
    THEN [captured |-> <<>>, pieces |-> pieces]
    ELSE [captured |-> CaptureOrder[First(hits)], pieces |-> pieces]

\* checkCapture returns null or {color, pieceIndex} and sends the captured
\* piece home; here: captured (<<>> for null) and the pieces after the call.
checkCapture(pieces, color, newPosition) ==
  IF newPosition \in SAFE_POSITIONS
    THEN [captured |-> <<>>, pieces |-> pieces]
  ELSE LET hits == OthersOn(pieces, color, newPosition)
       IN IF hits = {}
            THEN [captured |-> <<>>, pieces |-> pieces]
            ELSE LET k == First(hits)
                     oc == CaptureOrder[k][1]
                     oi == CaptureOrder[k][2]
                 IN [captured |-> <<oc, oi>>,
                     pieces |-> [pieces EXCEPT ![oc][oi] = HomePiece]]

getMovablePieces(pieces, color, diceValue) ==
  {i \in Slots : canMovePiece(pieces[color][i], diceValue, color)}

hasWon(pieces, color) ==
  \A i \in Slots :
    /\ pieces[color][i].isInHomeStretch
    /\ pieces[color][i].position = STRETCH_BASE + STRETCH_LAST

\* ------------------------------------------------------- registry helpers
\* rooms.get(roomCode): the index of the room in the Map, 0 for undefined.
RoomIndex(rs, roomCode) ==
  IF \E k \in 1..Len(rs) : rs[k].roomCode = roomCode
    THEN CHOOSE k \in 1..Len(rs) : rs[k].roomCode = roomCode
    ELSE 0

\* room.players[id]: the index of the entry in key order, 0 for undefined.
PlayerIndex(players, id) ==
  IF \E k \in 1..Len(players) : players[k].id = id
    THEN CHOOSE k \in 1..Len(players) : players[k].id = id
    ELSE 0

\* rooms.set(roomCode, room): an existing key keeps its place in the Map.
MapSet(rs, room) ==
  LET k == RoomIndex(rs, room.roomCode) IN
  IF k = 0 THEN Append(rs, room) ELSE [rs EXCEPT ![k] = room]

\* rooms.delete / delete room.players[id]
RemoveAt(seq, k) ==
  [j \in 1..(Len(seq) - 1) |-> IF j < k THEN seq[j] ELSE seq[j + 1]]

\* room.players[id] = player: an existing key keeps its place.
PlayersSet(players, player) ==
  LET k == PlayerIndex(players, player.id) IN
  IF k = 0 THEN Append(players, player) ELSE [players EXCEPT ![k] = player]

\* currentPlayerId that always reads the first key.
currentPlayerIdFirst(room) ==
  IF Len(room.players) > 0 THEN room.players[1].id ELSE 0

\* Object.keys(room.players)[room.currentPlayer], 0 for undefined.
currentPlayerId(room) ==
  IF room.currentPlayer + 1 \in 1..Len(room.players)
    THEN room.players[room.currentPlayer + 1].id
    ELSE 0

\* colors.find(color => !usedColors.includes(color))
availableColor(players) ==
  LET usedColors == {players[k].color : k \in 1..Len(players)}
      free == {k \in 1..4 : COLORS[k] \notin usedColors}
  IN IF free = {} THEN "undefined"
     ELSE COLORS[CHOOSE k \in free : \A j \in free : k <= j]

\* ------------------------------------------------------------- broadcasts
NoEvent ==
  [ ev |-> "none", id |-> 0, roomCode |-> 0, pieceIndex |-> -1,
    diceValue |-> 0, movablePieces |-> {}, playerColor |-> "",
    oldPosition |-> -1,
    newPosition |-> -1, captured |-> <<>>, hasWon |-> FALSE,
    anotherTurn |-> FALSE, turnSwitched |-> FALSE, gameWon |-> FALSE ]

\* ---------------------------------------------------------------- handlers
\* Each handler is an operator from the registry and the event's arguments
\* to [ok, rooms, last]: ok is FALSE on the paths that return early.
Rejected(rs) == [ok |-> FALSE, rooms |-> rs, last |-> NoEvent]

OnCreateRoom(rs, id, roomCode) ==
  LET gameState == createGameState
      room == [ roomCode      |-> roomCode,
                playerCount   |-> 1,
                players       |-> <<[id |-> id, color |-> "red",
                                     isHost |-> TRUE]>>,
                currentPlayer |-> gameState.currentPlayer,
                gameStarted   |-> gameState.gameStarted,
                diceValue     |-> gameState.diceValue,
                lastRoll      |-> gameState.lastRoll,
                canRollAgain  |-> gameState.canRollAgain,
                pieces        |-> gameState.pieces ]
  IN [ok |-> TRUE, rooms |-> MapSet(rs, room),
      last |-> [NoEvent EXCEPT !.ev = "room-created", !.id = id,
                               !.roomCode = roomCode]]

OnJoinRoom(rs, id, roomCode) ==
  LET k == RoomIndex(rs, roomCode) IN
  IF k = 0 THEN Rejected(rs)
  ELSE IF rs[k].playerCount >= MAX_PLAYERS THEN Rejected(rs)
  ELSE IF rs[k].gameStarted THEN Rejected(rs)
  ELSE LET room == rs[k]
           player == [id |-> id, color |-> availableColor(room.players),
                      isHost |-> FALSE]
           joined == [room EXCEPT
                        !.players = PlayersSet(room.players, player),
                        !.playerCount = room.playerCount + 1]
       IN [ok |-> TRUE, rooms |-> [rs EXCEPT ![k] = joined],
           last |-> [NoEvent EXCEPT !.ev = "player-joined", !.id = id,
                                    !.roomCode = roomCode,
                                    !.playerColor = player.color]]

OnStartGame(rs, id, roomCode) ==
  LET k == RoomIndex(rs, roomCode)
      p == IF k = 0 THEN 0 ELSE PlayerIndex(rs[k].players, id)
  IN IF k = 0 \/ p = 0 THEN Rejected(rs)
     ELSE IF ~rs[k].players[p].isHost THEN Rejected(rs)
     ELSE IF rs[k].playerCount < MIN_PLAYERS THEN Rejected(rs)
     ELSE [ok |-> TRUE,
           rooms |-> [rs EXCEPT ![k].gameStarted = TRUE],
           last |-> [NoEvent EXCEPT !.ev = "game-started", !.id = id,
                                    !.roomCode = roomCode]]

OnRollDice(rs, id, roomCode, diceValue) ==
  LET k == RoomIndex(rs, roomCode) IN
  IF k = 0 THEN Rejected(rs)
  ELSE IF ~rs[k].gameStarted THEN Rejected(rs)
  ELSE IF id # currentPlayerId(rs[k]) THEN Rejected(rs)
  ELSE LET room == rs[k]
           playerColor == room.players[PlayerIndex(room.players, id)].color
           movablePieces == getMovablePieces(room.pieces, playerColor,
                                             diceValue)
           switch == movablePieces = {} /\ diceValue # DICE_MAX
           rolled == [room EXCEPT
                        !.diceValue = diceValue,
                        !.lastRoll = diceValue,
                        !.canRollAgain =
                           IF switch THEN FALSE ELSE diceValue = DICE_MAX,
                        !.currentPlayer =
                           IF switch
                             THEN (room.currentPlayer + 1) % room.playerCount
                             ELSE room.currentPlayer]
       IN [ok |-> TRUE, rooms |-> [rs EXCEPT ![k] = rolled],
           last |-> [NoEvent EXCEPT !.ev = "dice-rolled", !.id = id,
                                    !.roomCode = roomCode,
                                    !.diceValue = diceValue,
                                    !.movablePieces = movablePieces,
                                    !.playerColor = playerColor,
                                    !.anotherTurn = (diceValue = DICE_MAX),
                                    !.turnSwitched = switch]]

OnMovePiece(rs, id, roomCode, pieceIndex) ==
  LET k == RoomIndex(rs, roomCode) IN
  IF k = 0 THEN Rejected(rs)
  ELSE IF ~rs[k].gameStarted THEN Rejected(rs)
  ELSE IF id # currentPlayerId(rs[k]) THEN Rejected(rs)
  ELSE LET room == rs[k]
           playerColor == room.players[PlayerIndex(room.players, id)].color
           piece == room.pieces[playerColor][pieceIndex]
           diceValue == room.diceValue
       IN IF ~canMovePiece(piece, diceValue, playerColor) THEN Rejected(rs)
          ELSE LET oldPosition == piece.position
                   moveResult == movePiece(piece, diceValue, playerColor)
                   moved == moveResult.piece
                   pieces1 == [room.pieces EXCEPT
                                 ![playerColor][pieceIndex] = moved]
                   capture ==
                     IF moved.position # AT_HOME /\ ~moved.isInHomeStretch
                       THEN checkCapture(pieces1, playerColor, moved.position)
                       ELSE [captured |-> <<>>, pieces |-> pieces1]
                   hasPlayerWon == hasWon(capture.pieces, playerColor)
                   anotherTurn ==
                     room.lastRoll = DICE_MAX \/ capture.captured # <<>>
                   advance == ~anotherTurn \/ hasPlayerWon
                   after == [room EXCEPT
                      !.pieces = capture.pieces,
                      !.currentPlayer =
                         IF advance
                           THEN (room.currentPlayer + 1) % room.playerCount
                           ELSE room.currentPlayer,
                      !.canRollAgain =
                         IF advance THEN FALSE ELSE room.canRollAgain]
               IN IF ~moveResult.moved THEN Rejected(rs)
                  ELSE [ok |-> TRUE, rooms |-> [rs EXCEPT ![k] = after],
                        last |-> [NoEvent EXCEPT
                           !.ev = "piece-moved", !.id = id,
                           !.roomCode = roomCode,
                           !.pieceIndex = pieceIndex,
                           !.diceValue = diceValue,
                           !.playerColor = playerColor,
                           !.oldPosition = oldPosition,
                           !.newPosition = moved.position,
                           !.captured = capture.captured,
                           !.hasWon = hasPlayerWon,
                           !.anotherTurn = anotherTurn,
                           !.gameWon = hasPlayerWon]]

\* The first room, in Map order, that holds the socket; 0 when none does.
FirstRoomOf(rs, id) ==
  LET in == {k \in 1..Len(rs) : PlayerIndex(rs[k].players, id) # 0} IN
  IF in = {} THEN 0 ELSE CHOOSE k \in in : \A j \in in : k <= j

\* room.players[socket.id]?.isHost, read after the entry was deleted.
isHostOf(players, id) ==
  LET p == PlayerIndex(players, id) IN
  IF p = 0 THEN FALSE ELSE players[p].isHost

OnDisconnect(rs, id) ==
  LET k == FirstRoomOf(rs, id) IN
  IF k = 0
    THEN [ok |-> TRUE, rooms |-> rs,
          last |-> [NoEvent EXCEPT !.ev = "disconnect", !.id = id]]
  ELSE LET room == rs[k]
           remaining == RemoveAt(room.players,
                                 PlayerIndex(room.players, id))
           playerCount == room.playerCount - 1
           promoted ==
             IF isHostOf(remaining, id) /\ Len(remaining) > 0
               THEN [remaining EXCEPT ![1].isHost = TRUE]
               ELSE remaining
           left == [room EXCEPT !.players = promoted,
                                !.playerCount = playerCount]
       IN [ok |-> TRUE,
           rooms |-> IF playerCount = 0 THEN RemoveAt(rs, k)
                     ELSE [rs EXCEPT ![k] = left],
           last |-> [NoEvent EXCEPT
                       !.ev = IF playerCount = 0 THEN "disconnect"
                              ELSE "player-left",
                       !.id = id, !.roomCode = room.roomCode]]

\* ----------------------------------------------------------------- actions
\* The turn controller's state after an accepted event: a roll with a
\* movable piece awaits that player's move; a move, a roll without one, a
\* new room under the code, the room's deletion ("disconnect" with a room
\* code) or the player's departure end the wait.
AwaitAfter(aw, ev) ==
  IF ev.roomCode \notin DOMAIN aw THEN aw
  ELSE IF ev.ev = "dice-rolled"
    THEN [aw EXCEPT ![ev.roomCode] =
            IF ev.movablePieces # {} THEN ev.id ELSE 0]
  ELSE IF ev.ev \in {"piece-moved", "room-created", "disconnect"}
    THEN [aw EXCEPT ![ev.roomCode] = 0]
  ELSE IF ev.ev = "player-left" /\ aw[ev.roomCode] = ev.id
    THEN [aw EXCEPT ![ev.roomCode] = 0]
  ELSE aw

Apply(r) ==
  /\ r.ok
  /\ rooms' = r.rooms
  /\ last' = r.last
  /\ awaiting' = AwaitAfter(awaiting, r.last)

NoProbe == [phase |-> "off"]

Init ==
  /\ rooms = <<>>
  /\ conn = [s \in Sockets |-> "new"]
  /\ last = NoEvent
  /\ nLobby = 0
  /\ nGame = 0
  /\ awaiting = [c \in RoomCodes |-> 0]
  /\ probe = NoProbe

\* io.on('connection'): identities are handed out in order.
Connect(s) ==
  /\ conn[s] = "new"
  /\ \A t \in Sockets : t < s => conn[t] # "new"
  /\ conn' = [conn EXCEPT ![s] = "open"]
  /\ last' = [NoEvent EXCEPT !.ev = "connection", !.id = s]
  /\ UNCHANGED <<rooms, nLobby, nGame, awaiting, probe>>

\* generateRoomCode(): any code. Codes are labels that are only compared for
\* equality, so of the codes no room has at present only the smallest is
\* tried; every code a room has at present is tried (a collision).
generateRoomCode(codes) ==
  {c \in codes : \A b \in codes : b < c => RoomIndex(rooms, b) # 0}

CreateRoom(s, cap, codes) ==
  /\ conn[s] = "open"
  /\ nLobby < cap
  /\ \E roomCode \in generateRoomCode(codes) : Apply(OnCreateRoom(rooms, s, roomCode))
  /\ nLobby' = nLobby + 1
  /\ UNCHANGED <<conn, nGame, probe>>

JoinRoom(s, cap, codes) ==
  /\ conn[s] = "open"
  /\ nLobby < cap
  /\ \E roomCode \in codes : Apply(OnJoinRoom(rooms, s, roomCode))
  /\ nLobby' = nLobby + 1
  /\ UNCHANGED <<conn, nGame, probe>>

StartGame(s, codes) ==
  /\ conn[s] = "open"
  /\ \E roomCode \in codes : Apply(OnStartGame(rooms, s, roomCode))
  /\ UNCHANGED <<conn, nLobby, nGame, probe>>

RollDice(s) ==
  /\ conn[s] = "open"
  /\ nGame < MaxGameEvents
  /\ \E roomCode \in RoomCodes, diceValue \in Dice :
       Apply(OnRollDice(rooms, s, roomCode, diceValue))
  /\ nGame' = nGame + 1
  /\ UNCHANGED <<conn, nLobby, probe>>

MovePiece(s) ==
  /\ conn[s] = "open"
  /\ nGame < MaxGameEvents
  /\ \E roomCode \in RoomCodes, pieceIndex \in Slots :
       Apply(OnMovePiece(rooms, s, roomCode, pieceIndex))
  /\ nGame' = nGame + 1
  /\ UNCHANGED <<conn, nLobby, probe>>

Disconnect(s, cap) ==
  /\ conn[s] = "open"
  /\ nLobby < cap
  /\ Apply(OnDisconnect(rooms, s))
  /\ conn' = [conn EXCEPT ![s] = "closed"]
  /\ nLobby' = nLobby + 1
  /\ UNCHANGED <<nGame, probe>>

Next ==
  \E s \in Sockets :
    \/ Connect(s)
    \/ CreateRoom(s, MaxLobbyEvents, RoomCodes)
    \/ JoinRoom(s, MaxLobbyEvents, RoomCodes)
    \/ StartGame(s, RoomCodes)
    \/ RollDice(s)
    \/ MovePiece(s)
    \/ Disconnect(s, MaxLobbyEvents)

\* Every handler, few lobby events, a short game.
Spec == Init /\ [][Next]_vars

\* ------------------------------------------------------------ the long game
\* The same handlers from the same initial state, with no limit on the
\* number of rolls and moves: the game is kept finite by moving only the
\* pieces of BoardSlots and by a small number of lobby events.
BoardSlots == {0}
BoardCodes == {1}
BoardSockets == {1, 2}

ApplyBoard(r) ==
  /\ r.ok
  /\ rooms' = r.rooms
  /\ last' = r.last

BoardRollDice(s) ==
  /\ conn[s] = "open"
  /\ \E roomCode \in BoardCodes, diceValue \in Dice :
       ApplyBoard(OnRollDice(rooms, s, roomCode, diceValue))
  /\ UNCHANGED <<conn, nLobby, nGame, awaiting, probe>>

BoardMovePiece(s) ==
  /\ conn[s] = "open"
  /\ \E roomCode \in BoardCodes, pieceIndex \in BoardSlots :
       ApplyBoard(OnMovePiece(rooms, s, roomCode, pieceIndex))
  /\ UNCHANGED <<conn, nLobby, nGame, awaiting, probe>>

NextBoard ==
  \E s \in BoardSockets :
    \/ Connect(s)
    \/ CreateRoom(s, MaxBoardLobby, BoardCodes)
    \/ JoinRoom(s, MaxBoardLobby, BoardCodes)
    \/ StartGame(s, BoardCodes)
    \/ BoardRollDice(s)
    \/ BoardMovePiece(s)
    \/ Disconnect(s, MaxBoardLobby)

SpecBoard == Init /\ [][NextBoard]_vars

\* ------------------------------------------------------------- the lobby
\* The room lifecycle on its own: the handlers that change membership and
\* start games, with more lobby events than Spec allows.
MaxLobbyOnly == 4    \* SpecLobby: accepted create-room, join-room, disconnect

NextLobby ==
  \E s \in Sockets :
    \/ Connect(s)
    \/ CreateRoom(s, MaxLobbyOnly, RoomCodes)
    \/ JoinRoom(s, MaxLobbyOnly, RoomCodes)
    \/ StartGame(s, RoomCodes)
    \/ Disconnect(s, MaxLobbyOnly)

SpecLobby == Init /\ [][NextLobby]_vars

\* ------------------------------------------------ two pieces of a colour
\* The game of two players in one room from its creation, with two pieces
\* of each colour asked to move and a limit on the rolls and moves.
MaxStackLobby == 2   \* SpecStack: accepted create-room, join-room, disconnect
MaxStackEvents == 13 \* SpecStack: accepted roll-dice and move-piece events

StackSlots == {0, 1}

StackRollDice(s) ==
  /\ conn[s] = "open"
  /\ nGame < MaxStackEvents
  /\ \E roomCode \in BoardCodes, diceValue \in Dice :
       ApplyBoard(OnRollDice(rooms, s, roomCode, diceValue))
  /\ nGame' = nGame + 1
  /\ UNCHANGED <<conn, nLobby, awaiting, probe>>

StackMovePiece(s) ==
  /\ conn[s] = "open"
  /\ nGame < MaxStackEvents
  /\ \E roomCode \in BoardCodes, pieceIndex \in StackSlots :
       ApplyBoard(OnMovePiece(rooms, s, roomCode, pieceIndex))
  /\ nGame' = nGame + 1
  /\ UNCHANGED <<conn, nLobby, awaiting, probe>>

NextStack ==
  \E s \in BoardSockets :
    \/ Connect(s)
    \/ CreateRoom(s, MaxStackLobby, BoardCodes)
    \/ JoinRoom(s, MaxStackLobby, BoardCodes)
    \/ StartGame(s, BoardCodes)
    \/ StackRollDice(s)
    \/ StackMovePiece(s)
    \/ Disconnect(s, MaxStackLobby)

SpecStack == Init /\ [][NextStack]_vars

\* ------------------------------------------------------------ the endgame
\* The last moves of a game of EndPlayers players in one room. The game is
\* taken up in a state it reaches from Init: the creator (red) has all
\* pieces at home, every other colour has three pieces finished (106) and
\* its last piece in the home stretch below 106; the last player has just
\* moved on a die below 6, and red has just rolled 1..5 with no movable
\* piece, which passed the turn to the second player. Only the pieces of
\* LastSlot are asked to move (the other pieces of a colour are finished,
\* or, for red, stay at home).
EndPlayers == 3      \* SpecEndgame: members of the room (red and two others)

EndSockets == 1..EndPlayers
LastSlot == 3

InitEndgame ==
  /\ conn = [s \in EndSockets |-> "open"]
  /\ nLobby = 0
  /\ nGame = 0
  /\ awaiting = [c \in RoomCodes |-> 0]
  /\ probe = NoProbe
  /\ \E diceValue \in 1..(DICE_MAX - 1) :
       \E at \in [2..EndPlayers ->
                   (STRETCH_BASE + 1)..(STRETCH_BASE + STRETCH_LAST - 1)] :
         /\ rooms = <<
              [ roomCode      |-> 1,
                playerCount   |-> EndPlayers,
                players       |-> [k \in EndSockets |->
                                     [id |-> k, color |-> COLORS[k],
                                      isHost |-> (k = 1)]],
                currentPlayer |-> 1,
                gameStarted   |-> TRUE,
                diceValue     |-> diceValue,
                lastRoll      |-> diceValue,
                canRollAgain  |-> FALSE,
                pieces        |->
                  [c \in Colors |-> [i \in Slots |->
                     IF \E k \in 2..EndPlayers : COLORS[k] = c
                       THEN [position |->
                               IF i = LastSlot
                                 THEN at[CHOOSE k \in 2..EndPlayers :
                                           COLORS[k] = c]
                                 ELSE STRETCH_BASE + STRETCH_LAST,
                             isInHomeStretch |-> TRUE]
                       ELSE HomePiece]] ] >>
         /\ last = [NoEvent EXCEPT
                      !.ev = "dice-rolled", !.id = 1, !.roomCode = 1,
                      !.diceValue = diceValue, !.playerColor = "red",
                      !.turnSwitched = TRUE]

EndRollDice(s) ==
  /\ conn[s] = "open"
  /\ \E roomCode \in BoardCodes, diceValue \in Dice :
       ApplyBoard(OnRollDice(rooms, s, roomCode, diceValue))
  /\ UNCHANGED <<conn, nLobby, nGame, awaiting, probe>>

EndMovePiece(s) ==
  /\ conn[s] = "open"
  /\ \E roomCode \in BoardCodes, pieceIndex \in {LastSlot} :
       ApplyBoard(OnMovePiece(rooms, s, roomCode, pieceIndex))
  /\ UNCHANGED <<conn, nLobby, nGame, awaiting, probe>>

NextEndgame ==
  \E s \in EndSockets :
    \/ EndRollDice(s)
    \/ EndMovePiece(s)

SpecEndgame == InitEndgame /\ [][NextEndgame]_vars

\* ------------------------------------------------- movePiece on its own
\* The main-track cells a piece of the colour can stand on: every cell but
\* the one right after the colour's stretch-entry boundary, which the colour
\* could only reach by walking past the boundary (red never leaves the track,
\* so all 52 cells; the entry cells 1, 14, 27, 40 are two past a boundary).
TrackCells(color) ==
  IF color = "red" THEN 0..(BOARD_SIZE - 1)
  ELSE (0..(BOARD_SIZE - 1)) \ {HOME_STRETCH_START[color] + 1}

ProbePieces(color) ==
  {HomePiece}
  \cup {[position |-> p, isInHomeStretch |-> FALSE] : p \in TrackCells(color)}
  \cup (IF color = "red" THEN {}
        ELSE {[position |-> STRETCH_BASE + i, isInHomeStretch |-> TRUE] :
                i \in 1..STRETCH_LAST})

InitMovePiece ==
  /\ rooms = <<>>
  /\ conn = [s \in Sockets |-> "new"]
  /\ last = NoEvent
  /\ nLobby = 0
  /\ nGame = 0
  /\ awaiting = [c \in RoomCodes |-> 0]
  /\ \E color \in Colors, diceValue \in Dice :
       \E piece \in ProbePieces(color) :
         probe = [phase |-> "call", color |-> color, diceValue |-> diceValue,
                  piece |-> piece, canMove |-> FALSE, moved |-> FALSE,
                  after |-> piece]

\* The move-piece handler's two calls on the piece: canMovePiece, and
\* movePiece when the piece can move.
CallMovePiece ==
  /\ probe.phase = "call"
  /\ LET can == canMovePiece(probe.piece, probe.diceValue, probe.color)
         res == movePiece(probe.piece, probe.diceValue, probe.color)
     IN probe' = [probe EXCEPT
                    !.phase = "done",
                    !.canMove = can,
                    !.moved = can /\ res.moved,
                    !.after = IF can THEN res.piece ELSE probe.piece]
  /\ UNCHANGED <<rooms, conn, last, nLobby, nGame, awaiting>>

NextMovePiece == CallMovePiece

SpecMovePiece == InitMovePiece /\ [][NextMovePiece]_vars

\* ------------------------------------------------------------------ claims
RoomIds == 1..Len(rooms)
Hosts(room) == {k \in 1..Len(room.players) : room.players[k].isHost}

\* The member after the one at index k of the key order, wrapping.
NextMember(room, k) == room.players[(k % Len(room.players)) + 1].id

\* C1: every room that has at least one player has exactly one player with
\* isHost = true (also after the host left a room that keeps players).
C1_ExactlyOneHost ==
  \A r \in RoomIds :
    Len(rooms[r].players) > 0 => Cardinality(Hosts(rooms[r])) = 1

\* C2: in every room that has players, currentPlayer is the index of a
\* member: 0 <= currentPlayer < number of players.
C2_CurrentPlayerIsMember ==
  \A r \in RoomIds :
    Len(rooms[r].players) > 0 =>
      /\ 0 <= rooms[r].currentPlayer
      /\ rooms[r].currentPlayer < Len(rooms[r].players)

\* C3: every room's playerCount equals the number of entries of its players
\* map.
C3_PlayerCountIsSize ==
  \A r \in RoomIds : rooms[r].playerCount = Len(rooms[r].players)

\* C4: after a successful move-piece in a room of at least two players the
\* mover still holds the turn iff (the die was 6 or the move captured) and
\* the move did not win; otherwise the next member in join order holds it,
\* the first member after the last.
C4_TurnAfterMove ==
  [][ last'.ev = "piece-moved" =>
        LET r == RoomIndex(rooms, last'.roomCode)
            room == rooms[r]
            after == rooms'[r]
            k == PlayerIndex(room.players, last'.id)
            keeps == /\ room.diceValue = DICE_MAX \/ last'.captured # <<>>
                     /\ ~last'.hasWon
        IN Len(room.players) >= 2 =>
             /\ (currentPlayerId(after) = last'.id) <=> keeps
             /\ ~keeps => currentPlayerId(after) = NextMember(room, k) ]_vars

\* C5: a successful move-piece is made only by the player whose own roll
\* awaits a move: a roll of that player not yet used by a successful move.
C5_MoveOnlyAfterOwnRoll ==
  [][ last'.ev = "piece-moved" =>
        awaiting[last'.roomCode] = last'.id ]_vars

\* C6: while a player's roll with a movable piece awaits the move, a further
\* roll-dice of that player does not change the room's die value.
C6_NoRollWhileAwaitingMove ==
  [][ (last'.ev = "dice-rolled" /\ awaiting[last'.roomCode] = last'.id) =>
        LET r == RoomIndex(rooms, last'.roomCode)
        IN rooms'[r].diceValue = rooms[r].diceValue ]_vars

\* Steps from the piece's cell to the colour's stretch-entry boundary cell,
\* walking the cycle (51 is followed by 0).
StepsToBoundary(color, position) ==
  (HOME_STRETCH_START[color] - position + BOARD_SIZE) % BOARD_SIZE

\* C7: for every colour, main-track cell and die value, a move that walks
\* past the colour's stretch-entry boundary cell puts the piece into the
\* home stretch at the number of steps taken past the boundary, with
\* isInHomeStretch set.
C7_CrossingEntersStretch ==
  (/\ probe.phase = "done"
   /\ probe.piece.position \in 0..(BOARD_SIZE - 1)
   /\ ~probe.piece.isInHomeStretch
   /\ StepsToBoundary(probe.color, probe.piece.position) < probe.diceValue)
  => /\ probe.moved
     /\ probe.after.isInHomeStretch
     /\ probe.after.position =
          STRETCH_BASE + probe.diceValue
            - StepsToBoundary(probe.color, probe.piece.position)

\* A step keeps the room object of code c unless it is the create-room that
\* puts a new room (with new pieces) under that code.
SameRoomObject(c) == ~(last'.ev = "room-created" /\ last'.roomCode = c)

\* C8: within a room, a piece goes back to AtHome only by a successful move
\* of a piece of another colour that lands on the cell it stands on, a
\* main-track cell that is not safe; so a piece on a safe cell, in its home
\* stretch or finished is reset by no event.
C8_ResetOnlyByCapture ==
  [][ \A r \in RoomIds :
        LET room == rooms[r]
            r2 == RoomIndex(rooms', room.roomCode)
        IN (r2 # 0 /\ SameRoomObject(room.roomCode)) =>
             \/ rooms'[r2].pieces = room.pieces
             \/ \A c \in Colors, i \in Slots :
                  LET was == room.pieces[c][i] IN
                  (/\ was.position # AT_HOME
                   /\ rooms'[r2].pieces[c][i].position = AT_HOME)
                  => /\ last'.ev = "piece-moved"
                     /\ last'.roomCode = room.roomCode
                     /\ last'.playerColor # c
                     /\ last'.captured = <<c, i>>
                     /\ last'.newPosition = was.position
                     /\ was.position \in 0..(BOARD_SIZE - 1)
                     /\ was.position \notin SAFE_POSITIONS
                     /\ ~was.isInHomeStretch ]_vars

\* C8 witness: a move has just captured a piece, which is back at home.
C8_Witness ==
  /\ last.ev = "piece-moved"
  /\ last.captured # <<>>
  /\ rooms[RoomIndex(rooms, last.roomCode)]
       .pieces[last.captured[1]][last.captured[2]].position = AT_HOME

\* C9: when a successful move-piece leaves the moved piece on a main-track
\* cell that is not safe and on which a piece of another colour stands, the
\* first such piece in colour-then-slot order is AtHome with isInHomeStretch
\* false after the move, and the reported capture names its colour and slot.
C9_LandingCaptures ==
  [][ last'.ev = "piece-moved" =>
        LET r == RoomIndex(rooms, last'.roomCode)
            cell == last'.newPosition
            others == {k \in 1..16 :
                         /\ CaptureOrder[k][1] # last'.playerColor
                         /\ rooms[r].pieces[CaptureOrder[k][1]]
                              [CaptureOrder[k][2]].position = cell}
        IN (/\ cell \in 0..(BOARD_SIZE - 1)
            /\ cell \notin SAFE_POSITIONS
            /\ others # {})
           => LET k == CHOOSE h \in others : \A g \in others : h <= g
                  c == CaptureOrder[k][1]
                  i == CaptureOrder[k][2]
              IN /\ rooms'[r].pieces[c][i].position = AT_HOME
                 /\ ~rooms'[r].pieces[c][i].isInHomeStretch
                 /\ last'.captured = <<c, i>> ]_vars

\* C9 witness: the last move landed on a cell that is not safe, reported a
\* capture and gave the mover another turn.
C9_Witness ==
  /\ last.ev = "piece-moved"
  /\ last.newPosition \in (0..(BOARD_SIZE - 1)) \ SAFE_POSITIONS
  /\ last.captured # <<>>
  /\ last.captured[1] # last.playerColor
  /\ last.anotherTurn

\* A move-piece request for a piece of the requester's colour that is AtHome
\* while the room's die value is 1..5.
AtHomeRequest(s, code, i) ==
  LET r == RoomIndex(rooms, code)
      k == IF r = 0 THEN 0 ELSE PlayerIndex(rooms[r].players, s)
  IN /\ r # 0
     /\ k # 0
     /\ rooms[r].pieces[rooms[r].players[k].color][i].position = AT_HOME
     /\ rooms[r].diceValue \in 1..(DICE_MAX - 1)

\* C10: within a room, a piece that is AtHome leaves home only by a
\* successful move-piece of its own colour and slot made while the room's
\* die value is 6, and then stands on its colour's entry cell; with a die
\* value 1..5 a move-piece on an AtHome piece is rejected and changes nothing.
C10_LeaveHomeOnlyWithSix ==
  /\ [][ \A r \in RoomIds :
           LET room == rooms[r]
               r2 == RoomIndex(rooms', room.roomCode)
           IN (r2 # 0 /\ SameRoomObject(room.roomCode)) =>
                \/ rooms'[r2].pieces = room.pieces
                \/ \A c \in Colors, i \in Slots :
                     (/\ room.pieces[c][i].position = AT_HOME
                      /\ rooms'[r2].pieces[c][i].position # AT_HOME)
                     => /\ last'.ev = "piece-moved"
                        /\ last'.roomCode = room.roomCode
                        /\ last'.playerColor = c
                        /\ last'.pieceIndex = i
                        /\ room.diceValue = DICE_MAX
                        /\ rooms'[r2].pieces[c][i] =
                             [position |-> START_POSITIONS[c],
                              isInHomeStretch |-> FALSE] ]_vars
  /\ [](\A r \in RoomIds :
          rooms[r].diceValue \in 1..(DICE_MAX - 1) =>
            \A s \in Sockets, i \in Slots :
              AtHomeRequest(s, rooms[r].roomCode, i) =>
                LET res == OnMovePiece(rooms, s, rooms[r].roomCode, i)
                IN ~res.ok /\ res.rooms = rooms)

\* C10 witness: a piece has just left home onto its entry cell on a 6, and
\* the turn holder has a piece at home it could ask to move.
C10_Witness ==
  /\ last.ev = "piece-moved"
  /\ last.oldPosition = AT_HOME
  /\ last.newPosition = START_POSITIONS[last.playerColor]
  /\ last.diceValue = DICE_MAX

\* The pieces of the room with the given code differ from before the step
\* only in the piece (c, i).
OnlyPieceChanged(room, after, c, i) ==
  \A c2 \in Colors, i2 \in Slots :
    (c2 # c \/ i2 # i) => after.pieces[c2][i2] = room.pieces[c2][i2]

\* C11: for the turn holder's piece in the home stretch at index i and the
\* room's die value d, move-piece succeeds iff i + d <= 6 and then puts the
\* piece at index exactly i + d; otherwise it is rejected and nothing
\* changes. Every home-stretch piece has an index 1..6, and a step changes a
\* home-stretch piece only by such a move, so a piece at index 6 stays.
C11_StretchMoveExact ==
  /\ [](\A r \in RoomIds :
          LET room == rooms[r]
              s == currentPlayerId(room)
          IN /\ \A c \in Colors, i \in Slots :
                  room.pieces[c][i].isInHomeStretch =>
                    room.pieces[c][i].position \in
                      (STRETCH_BASE + 1)..(STRETCH_BASE + STRETCH_LAST)
             /\ (room.gameStarted /\ s # 0) =>
                  LET c == room.players[PlayerIndex(room.players, s)].color
                  IN \A i \in Slots :
                       room.pieces[c][i].isInHomeStretch =>
                         LET idx == room.pieces[c][i].position - STRETCH_BASE
                             res == OnMovePiece(rooms, s, room.roomCode, i)
                             k2 == RoomIndex(res.rooms, room.roomCode)
                         IN IF idx + room.diceValue <= STRETCH_LAST
                              THEN /\ res.ok
                                   /\ res.rooms[k2].pieces[c][i] =
                                        [position |-> STRETCH_BASE + idx
                                                        + room.diceValue,
                                         isInHomeStretch |-> TRUE]
                                   /\ OnlyPieceChanged(room, res.rooms[k2],
                                                       c, i)
                              ELSE ~res.ok /\ res.rooms = rooms)
  /\ [][ \A r \in RoomIds :
           LET room == rooms[r]
               r2 == RoomIndex(rooms', room.roomCode)
           IN (r2 # 0 /\ SameRoomObject(room.roomCode)) =>
                \/ rooms'[r2].pieces = room.pieces
                \/ \A c \in Colors, i \in Slots :
                     (/\ room.pieces[c][i].isInHomeStretch
                      /\ rooms'[r2].pieces[c][i] # room.pieces[c][i])
                     => /\ last'.ev = "piece-moved"
                        /\ last'.playerColor = c
                        /\ last'.pieceIndex = i
                        /\ room.pieces[c][i].position + room.diceValue
                             <= STRETCH_BASE + STRETCH_LAST
                        /\ rooms'[r2].pieces[c][i] =
                             [position |-> room.pieces[c][i].position
                                             + room.diceValue,
                              isInHomeStretch |-> TRUE] ]_vars

\* C11 witness: a move inside the home stretch has just finished a piece,
\* and its player still holds the turn, so a further move-piece on the
\* finished piece can be asked for.
C11_Witness ==
  /\ last.ev = "piece-moved"
  /\ last.oldPosition > STRETCH_BASE
  /\ last.newPosition = STRETCH_BASE + STRETCH_LAST
  /\ currentPlayerId(rooms[RoomIndex(rooms, last.roomCode)]) = last.id

\* The connection identities that are members of the room.
Members(room) == {room.players[k].id : k \in 1..Len(room.players)}

\* C12: a room leaves the registry exactly in the disconnect that removes
\* its last player: no room in the registry has an empty players map, and a
\* step takes a room's code out of the registry only when it is the
\* disconnect of the room's only member.
C12_RemovedExactlyWhenEmpty ==
  /\ [](\A r \in RoomIds : Len(rooms[r].players) > 0)
  /\ [][ \A r \in RoomIds :
           RoomIndex(rooms', rooms[r].roomCode) = 0 =>
             /\ last'.ev = "disconnect"
             /\ Members(rooms[r]) = {last'.id} ]_vars

\* The connection is the host of the room.
IsHost(room, s) ==
  \E k \in 1..Len(room.players) :
    room.players[k].id = s /\ room.players[k].isHost

\* C13: a room's gameStarted becomes true only in a start-game of the
\* room's host made while the room has at least two players; a start-game
\* of a non-host, for an unknown room or for a room with fewer than two
\* players changes nothing.
C13_StartOnlyByHostOfTwo ==
  /\ [][ \A r \in 1..Len(rooms') :
           LET after == rooms'[r]
               r0 == RoomIndex(rooms, after.roomCode)
           IN (after.gameStarted /\ (r0 = 0 \/ ~rooms[r0].gameStarted)) =>
                /\ r0 # 0
                /\ last'.ev = "game-started"
                /\ last'.roomCode = after.roomCode
                /\ IsHost(rooms[r0], last'.id)
                /\ Len(rooms[r0].players) >= MIN_PLAYERS ]_vars
  /\ [](\A s \in Sockets, c \in RoomCodes :
          LET r == RoomIndex(rooms, c) IN
          (\/ r = 0
           \/ ~IsHost(rooms[r], s)
           \/ Len(rooms[r].players) < MIN_PLAYERS)
          => LET res == OnStartGame(rooms, s, c)
             IN ~res.ok /\ res.rooms = rooms)

\* No two entries of the room's players map have the same colour.
UniqueColours(room) ==
  \A j, k \in 1..Len(room.players) :
    room.players[j].color = room.players[k].color => j = k

\* C14: in every room no two players have the same colour, and a step
\* leaves the colour of every player who is a member of the room before
\* and after it as it was.
C14_ColourUniqueAndFixed ==
  /\ [](\A r \in RoomIds : UniqueColours(rooms[r]))
  /\ [][ \A r \in RoomIds :
           LET room == rooms[r]
               r2 == RoomIndex(rooms', room.roomCode)
           IN (r2 # 0 /\ SameRoomObject(room.roomCode)) =>
                \A k \in 1..Len(room.players) :
                  LET k2 == PlayerIndex(rooms'[r2].players,
                                        room.players[k].id)
                  IN k2 # 0 =>
                       rooms'[r2].players[k2].color = room.players[k].color
        ]_vars

\* C15: in the life of a room game-won is broadcast at most once: a move
\* that broadcasts game-won is made in a room in which no colour has won
\* before (a colour that has won keeps its four pieces finished).
C15_GameWonOnce ==
  [][ (last'.ev = "piece-moved" /\ last'.gameWon) =>
        LET r == RoomIndex(rooms, last'.roomCode)
        IN \A c \in Colors : ~hasWon(rooms[r].pieces, c) ]_vars

\* The connection is the room's current turn holder: the member at index
\* currentPlayer of the join order.
IsTurnHolder(room, s) ==
  /\ room.currentPlayer \in 0..(Len(room.players) - 1)
  /\ room.players[room.currentPlayer + 1].id = s

\* An identity that never connects, so a member of no room.
Stranger == MaxSockets + 1

\* The request of connection s for room code c is out of turn: the room is
\* unknown or not started, or s is not its turn holder.
OutOfTurn(s, c) ==
  LET r == RoomIndex(rooms, c) IN
  \/ r = 0
  \/ ~rooms[r].gameStarted
  \/ ~IsTurnHolder(rooms[r], s)

\* C16: a roll-dice or move-piece of a connection that is not the room's
\* turn holder (another member or a non-member), or for a room that is
\* unknown or not started, is rejected and leaves every room as it was; so
\* every accepted roll-dice and move-piece comes from the turn holder of a
\* started room and changes that room only.
C16_OutOfTurnChangesNothing ==
  /\ [](\A s \in Sockets \cup {Stranger}, c \in RoomCodes :
          OutOfTurn(s, c) =>
            /\ \A diceValue \in Dice :
                 LET res == OnRollDice(rooms, s, c, diceValue)
                 IN ~res.ok /\ res.rooms = rooms
            /\ \A pieceIndex \in Slots :
                 LET res == OnMovePiece(rooms, s, c, pieceIndex)
                 IN ~res.ok /\ res.rooms = rooms)
  /\ [][ last'.ev \in {"dice-rolled", "piece-moved"} =>
           /\ ~OutOfTurn(last'.id, last'.roomCode)
           /\ Len(rooms') = Len(rooms)
           /\ \A r \in RoomIds :
                rooms[r].roomCode # last'.roomCode => rooms'[r] = rooms[r]
        ]_vars

\* C16 witness: a roll or a move has just been accepted in a started room
\* that has a connected member who is not the turn holder.
C16_Witness ==
  /\ last.ev \in {"dice-rolled", "piece-moved"}
  /\ \E r \in RoomIds, s \in Sockets :
       /\ rooms[r].roomCode = last.roomCode
       /\ rooms[r].gameStarted
       /\ conn[s] = "open"
       /\ s \in Members(rooms[r])
       /\ ~IsTurnHolder(rooms[r], s)
       /\ \E t \in Sockets : IsTurnHolder(rooms[r], t)

\* C17: room codes are collision-free: a create-room never gets the code
\* of a room that is in the registry, so it adds a room and leaves every
\* room that was there, players included, as it was.
C17_CodesCollisionFree ==
  [][ last'.ev = "room-created" =>
        /\ RoomIndex(rooms, last'.roomCode) = 0
        /\ \A r \in RoomIds : rooms'[r] = rooms[r] ]_vars

\* The rooms, as indices of the registry, the connection is a member of.
RoomsOf(s) == {r \in RoomIds : s \in Members(rooms[r])}

\* C18: at every moment a connection identity is a member of at most one
\* room, and after its disconnect event it is a member of no room.
C18_AtMostOneRoom ==
  \A s \in Sockets :
    /\ Cardinality(RoomsOf(s)) <= 1
    /\ conn[s] = "closed" => RoomsOf(s) = {}

\* C19: when a player other than the turn holder disconnects from a started
\* room, the turn holder after the disconnect is the same connection as
\* before it, and a roll-dice of that connection is still accepted.
C19_HolderKeepsTurn ==
  [][ last'.ev = "player-left" =>
        LET r == RoomIndex(rooms, last'.roomCode)
            r2 == RoomIndex(rooms', last'.roomCode)
        IN \A h \in Sockets :
             (/\ rooms[r].gameStarted
              /\ IsTurnHolder(rooms[r], h)
              /\ h # last'.id)
             => /\ IsTurnHolder(rooms'[r2], h)
                /\ \A diceValue \in Dice :
                     OnRollDice(rooms', h, last'.roomCode, diceValue).ok
    ]_vars

\* C20: in every reachable state of a room, no main-track cell outside the
\* safe set holds pieces of two different colours (pieces of one colour may
\* share a cell).
C20_NoMixedCell ==
  \A r \in RoomIds :
    \A c, d \in Colors, i, j \in Slots :
      LET p == rooms[r].pieces[c][i]
          q == rooms[r].pieces[d][j]
      IN (/\ c # d
          /\ ~p.isInHomeStretch
          /\ ~q.isInHomeStretch
          /\ p.position \in (0..(BOARD_SIZE - 1)) \ SAFE_POSITIONS)
         => p.position # q.position

====
